---- MODULE Spec2Model ----
(***************************************************************************)
(* The AST naming-convention checker of pep8ext/astchecker.py.             *)
(*                                                                         *)
(* A tree is a sequence of node records; node i's parent is                *)
(* tree[i].parent (0 for the root, which is node 1) and the children of a  *)
(* node, in ast.iter_child_nodes order, are the nodes naming it as parent  *)
(* in increasing index.  The empty sequence stands for the absent tree     *)
(* (None).  Identifiers are sequences of one-character strings, so that    *)
(* the regular expressions and the slices of the source work on the        *)
(* characters.  Expression operands the checks read through a statement's  *)
(* fields (assignment targets and values, decorators, arguments) are       *)
(* carried as fields of the statement's record: no check has a handler for *)
(* an expression kind and no pass reads one through the child iteration.   *)
(***************************************************************************)
EXTENDS Integers, Sequences, FiniteSets, TLC

VARIABLES
    tree,           \* ASTChecker._node
    parents,        \* ASTChecker.parents, the deque of ancestors
    stack,          \* the suspended _run generator frames, innermost first
    out,            \* the diagnostics yielded so far
    function_type,  \* node.function_type of each node ("" while not set)
    global_names,   \* node.global_names of each node
    status,         \* "init", "running", "done"
    events          \* history: the visits, pushes and pops so far

vars == <<tree, parents, stack, out, function_type, global_names, status, events>>

----------------------------------------------------------------------------
(* Characters and identifiers *)

LowerChars ==
    {"a","b","c","d","e","f","g","h","i","j","k","l","m",
     "n","o","p","q","r","s","t","u","v","w","x","y","z"}

UpperChars ==
    {"A","B","C","D","E","F","G","H","I","J","K","L","M",
     "N","O","P","Q","R","S","T","U","V","W","X","Y","Z"}

DigitChars == {"0","1","2","3","4","5","6","7","8","9"}

\* Python's None where an identifier is optional (an identifier is never empty)
None == <<>>

\* The absent tree
NoTree == <<>>

n_self == <<"s","e","l","f">>
n_cls == <<"c","l","s">>
n_classmethod == <<"c","l","a","s","s","m","e","t","h","o","d">>
n_staticmethod == <<"s","t","a","t","i","c","m","e","t","h","o","d">>

Min(a, b) == IF a < b THEN a ELSE b
Max(a, b) == IF a < b THEN b ELSE a

\* name[:k]
Prefix(s, k) == SubSeq(s, 1, Min(k, Len(s)))
\* name[-k:]
Suffix(s, k) == SubSeq(s, Max(1, Len(s) - k + 1), Len(s))

----------------------------------------------------------------------------
(* The regular expressions, as re.match runs them *)

\* a greedy [class]* from position i: the position after the run
RECURSIVE SkipClass(_, _, _)
SkipClass(s, i, class) ==
    IF i <= Len(s) /\ s[i] \in class THEN SkipClass(s, i + 1, class) ELSE i

\* "$": at the end, or before a newline that ends the string
AtEnd(s, i) ==
    IF i = Len(s) + 1 THEN TRUE
    ELSE IF i = Len(s) THEN s[i] = "\n"
    ELSE FALSE

LOWERCASE_REGEX(s) ==
    /\ Len(s) >= 1
    /\ s[1] \in {"_"} \cup LowerChars
    /\ AtEnd(s, SkipClass(s, 2, {"_"} \cup LowerChars \cup DigitChars))

UPPERCASE_REGEX(s) ==
    /\ Len(s) >= 1
    /\ s[1] \in {"_"} \cup UpperChars
    /\ AtEnd(s, SkipClass(s, 2, {"_"} \cup UpperChars \cup DigitChars))

MIXEDCASE_REGEX(s) ==
    LET k == IF Len(s) >= 1 /\ s[1] = "_" THEN 2 ELSE 1
    IN  /\ Len(s) >= k
        /\ s[k] \in UpperChars
        /\ AtEnd(s, SkipClass(s, k + 1, LowerChars \cup UpperChars \cup DigitChars))

----------------------------------------------------------------------------
(* Nodes *)

\* an expression operand: kind is "Name", "Attribute", "Call", "Num"
Expr(kind, id, lineno, col_offset) ==
    [kind |-> kind, id |-> id, lineno |-> lineno, col_offset |-> col_offset]

NoExpr == Expr("None", None, 0, 0)

\* the value of an Assign: a call has func and args
Value(kind, func, args) == [kind |-> kind, func |-> func, args |-> args]

NoValue == Value("None", NoExpr, <<>>)

\* ast.arguments
Arguments(args, kwonlyargs, vararg, kwarg) ==
    [args |-> args, kwonlyargs |-> kwonlyargs, vararg |-> vararg, kwarg |-> kwarg]

NoArguments == Arguments(<<>>, <<>>, None, None)

\* ast.alias of an ImportFrom
Alias(name, asname) == [name |-> name, asname |-> asname]

BlankNode ==
    [kind |-> "Module", parent |-> 0, lineno |-> 0, col_offset |-> 0,
     name |-> None, decorator_list |-> <<>>, args |-> NoArguments,
     targets |-> <<>>, value |-> NoValue, names |-> <<>>, aliases |-> <<>>]

\* ast.iter_child_nodes: the children of n, in order
RECURSIVE ChildrenFrom(_, _, _)
ChildrenFrom(t, n, i) ==
    IF i > Len(t) THEN <<>>
    ELSE IF t[i].parent = n THEN <<i>> \o ChildrenFrom(t, n, i + 1)
    ELSE ChildrenFrom(t, n, i + 1)

ast_iter_nodes(n) == ChildrenFrom(tree, n, 1)

----------------------------------------------------------------------------
(* The diagnostic builder *)

\* getattr(self, code): the message a check class gives a code
Message(code) ==
    CASE code = "E800" -> "class names should use CapWords convention"
      [] code = "E801" -> "function name should be lowercase"
      [] code = "E802" -> "argument name should be lowercase"
      [] code = "E803" -> "first argument of a classmethod should be named 'cls'"
      [] code = "E804" -> "first argument of a method should be named 'self'"
      [] code = "E805" -> "variable in function should be lowercase"
      [] code = "W800" -> "constant imported as non constant"
      [] code = "W801" -> "lowercase imported as non lowercase"
      [] code = "W802" -> "camelcase imported as lowercase"
      [] code = "W803" -> "camelcase imported as constant"

\* a bug that forgets the decorator lines of a definition
err_NoDecoratorLinesMutant(self, node, code) ==
    LET col_offset == IF node.kind = "ClassDef" THEN node.col_offset + 6
                      ELSE IF node.kind = "FunctionDef" THEN node.col_offset + 4
                      ELSE node.col_offset
    IN  <<node.lineno, col_offset, code \o " " \o Message(code), self>>

\* _err: the tuple (lineno, col_offset, text, self)
err(self, node, code) ==
    LET lineno == IF node.kind \in {"ClassDef", "FunctionDef"}
                  THEN node.lineno + Len(node.decorator_list)
                  ELSE node.lineno
        col_offset == IF node.kind = "ClassDef" THEN node.col_offset + 6
                      ELSE IF node.kind = "FunctionDef" THEN node.col_offset + 4
                      ELSE node.col_offset
    IN  <<lineno, col_offset, code \o " " \o Message(code), self>>

----------------------------------------------------------------------------
(* The annotator passes of ASTChecker *)

\* what a check reads with getattr(node, 'function_type', 'function')
getattr_function_type(n) ==
    IF function_type[n] = "" THEN "function" ELSE function_type[n]

\* the string an identifier classmethod / staticmethod is kept as
FuncName(id) == IF id = n_classmethod THEN "classmethod" ELSE "staticmethod"

\* the first loop of tag_class_functions: the dict late_decoration, as a
\* function from the wrapped names
RECURSIVE LateDecoration(_, _, _)
LateDecoration(children, i, late) ==
    IF i > Len(children) THEN late
    ELSE
        LET node == tree[children[i]]
            isLate ==
                /\ node.kind = "Assign"
                /\ node.value.kind = "Call"
                /\ node.value.func.kind = "Name"
                /\ node.value.func.id \in {n_classmethod, n_staticmethod}
                /\ Len(node.value.args) = 1
                /\ node.value.args[1].kind = "Name"
            meth == node.value.args[1].id
        IN  IF isLate
            THEN LateDecoration(children, i + 1,
                    [x \in DOMAIN late \cup {meth} |->
                        IF x = meth THEN FuncName(node.value.func.id) ELSE late[x]])
            ELSE LateDecoration(children, i + 1, late)

\* [d.id for d in node.decorator_list if isinstance(d, ast.Name) and
\*  d.id in ('classmethod', 'staticmethod')]
RECURSIVE DecoratorNames(_, _)
DecoratorNames(decorator_list, i) ==
    IF i > Len(decorator_list) THEN <<>>
    ELSE IF /\ decorator_list[i].kind = "Name"
            /\ decorator_list[i].id \in {n_classmethod, n_staticmethod}
         THEN <<FuncName(decorator_list[i].id)>> \o DecoratorNames(decorator_list, i + 1)
         ELSE DecoratorNames(decorator_list, i + 1)

\* a bug that lets the decorator win over the late decoration
TagOne_DecoratorFirstMutant(node, late) ==
    LET names == DecoratorNames(node.decorator_list, 1)
    IN  IF names # <<>> THEN names[1]
        ELSE IF node.name \in DOMAIN late THEN late[node.name]
        ELSE "method"

\* the body of the second loop of tag_class_functions for one FunctionDef
TagOne(node, late) ==
    IF node.name \in DOMAIN late THEN late[node.name]
    ELSE IF node.decorator_list # <<>>
         THEN LET names == DecoratorNames(node.decorator_list, 1)
              IN  IF names # <<>> THEN names[1] ELSE "method"
         ELSE "method"

\* tag_class_functions: the function_type attributes after the pass
tag_class_functions(cls_node) ==
    LET children == ast_iter_nodes(cls_node)
        late == LateDecoration(children, 1, <<>>)
    IN  [n \in DOMAIN function_type |->
            IF tree[n].parent = cls_node /\ tree[n].kind = "FunctionDef"
            THEN TagOne(tree[n], late)
            ELSE function_type[n]]

Range(s) == {s[i] : i \in DOMAIN s}

\* a bug that does not stop at the nested scopes
GlobalsLoop_NoScopeStopMutant(nodes_to_check, names) ==
    LET RECURSIVE Walk(_, _)
        Walk(todo, acc) ==
            IF todo = <<>> THEN acc
            ELSE LET node == todo[Len(todo)]
                     rest == SubSeq(todo, 1, Len(todo) - 1)
                     acc2 == IF tree[node].kind = "Global"
                             THEN acc \cup Range(tree[node].names) ELSE acc
                 IN  Walk(rest \o ast_iter_nodes(node), acc2)
    IN  Walk(nodes_to_check, names)

\* the while loop of find_global_defs: pop from the right, extend
RECURSIVE GlobalsLoop(_, _)
GlobalsLoop(nodes_to_check, names) ==
    IF nodes_to_check = <<>> THEN names
    ELSE
        LET node == nodes_to_check[Len(nodes_to_check)]
            rest == SubSeq(nodes_to_check, 1, Len(nodes_to_check) - 1)
            names2 == IF tree[node].kind = "Global"
                      THEN names \cup Range(tree[node].names)
                      ELSE names
        IN  IF tree[node].kind \notin {"FunctionDef", "ClassDef"}
            THEN GlobalsLoop(rest \o ast_iter_nodes(node), names2)
            ELSE GlobalsLoop(rest, names2)

\* find_global_defs: the global_names attributes after the pass
find_global_defs(func_def_node) ==
    [global_names EXCEPT ![func_def_node] =
        [assigned |-> TRUE,
         names |-> GlobalsLoop(ast_iter_nodes(func_def_node), {})]]

----------------------------------------------------------------------------
(* The rule set.  A handler takes the visited node (its index) and the     *)
(* ancestor chain, and gives the sequence of diagnostics it yields.        *)

\* get_arg_names (Python 3): positional names, then keyword-only names
get_arg_names(node) == node.args.args \o node.args.kwonlyargs

ClassNameCheck_visit_classdef(n, ps) ==
    IF ~MIXEDCASE_REGEX(tree[n].name)
    THEN <<err("ClassNameCheck", tree[n], "E800")>>
    ELSE <<>>

\* a bug that applies the double-underscore restriction to every role
FunctionNameCheck_AnyRoleMutant(n, ps) ==
    LET name == tree[n].name
    IN  IF \/ <<"_", "_">> \in {Prefix(name, 2), Suffix(name, 2)}
           \/ ~LOWERCASE_REGEX(name)
        THEN <<err("FunctionNameCheck", tree[n], "E801")>>
        ELSE <<>>

FunctionNameCheck_visit_functiondef(n, ps) ==
    LET ft == getattr_function_type(n)
        name == tree[n].name
    IN  IF \/ (ft = "function" /\ <<"_", "_">> \in {Prefix(name, 2), Suffix(name, 2)})
           \/ ~LOWERCASE_REGEX(name)
        THEN <<err("FunctionNameCheck", tree[n], "E801")>>
        ELSE <<>>

\* a bug that asks for 'self' only when every argument is lowercase
FunctionArgNamesCheck_SelfLastMutant(n, ps) ==
    LET node == tree[n]
        E(code) == <<err("FunctionArgNamesCheck", node, code)>>
        arg_names == get_arg_names(node)
        ft == getattr_function_type(n)
    IN  IF node.args.kwarg # None /\ ~LOWERCASE_REGEX(node.args.kwarg) THEN E("E802")
        ELSE IF node.args.vararg # None /\ ~LOWERCASE_REGEX(node.args.vararg) THEN E("E802")
        ELSE IF arg_names = <<>> THEN <<>>
        ELSE IF \E i \in DOMAIN arg_names : ~LOWERCASE_REGEX(arg_names[i]) THEN E("E802")
        ELSE IF ft = "method" /\ arg_names[1] # n_self THEN E("E804")
        ELSE IF ft = "classmethod" /\ arg_names[1] # n_cls THEN E("E803")
        ELSE <<>>

FunctionArgNamesCheck_visit_functiondef(n, ps) ==
    LET node == tree[n]
        E(code) == <<err("FunctionArgNamesCheck", node, code)>>
        arg_names == get_arg_names(node)
        ft == getattr_function_type(n)
    IN  IF node.args.kwarg # None /\ ~LOWERCASE_REGEX(node.args.kwarg) THEN E("E802")
        ELSE IF node.args.vararg # None /\ ~LOWERCASE_REGEX(node.args.vararg) THEN E("E802")
        ELSE IF arg_names = <<>> THEN <<>>
        ELSE
            (IF ft = "method"
             THEN (IF arg_names[1] # n_self THEN E("E804") ELSE <<>>)
             ELSE IF ft = "classmethod"
                  THEN (IF arg_names[1] # n_cls THEN E("E803") ELSE <<>>)
                  ELSE <<>>)
            \o
            (IF \E i \in DOMAIN arg_names : ~LOWERCASE_REGEX(arg_names[i])
             THEN E("E802") ELSE <<>>)

\* the loop of ImportAsCheck.visit_importfrom from alias i on
RECURSIVE ImportAsLoop(_, _)
ImportAsLoop(node, i) ==
    IF i > Len(node.aliases) THEN <<>>
    ELSE
        LET name == node.aliases[i]
            E(code) == <<err("ImportAsCheck", node, code)>>
            here ==
                IF name.asname = None THEN <<>>
                ELSE IF UPPERCASE_REGEX(name.name)
                     THEN (IF ~UPPERCASE_REGEX(name.asname) THEN E("W800") ELSE <<>>)
                ELSE IF LOWERCASE_REGEX(name.name)
                     THEN (IF ~LOWERCASE_REGEX(name.asname) THEN E("W801") ELSE <<>>)
                ELSE IF LOWERCASE_REGEX(name.asname) THEN E("W802")
                ELSE IF UPPERCASE_REGEX(name.asname) THEN E("W803")
                ELSE <<>>
        IN  here \o ImportAsLoop(node, i + 1)

ImportAsCheck_visit_importfrom(n, ps) == ImportAsLoop(tree[n], 1)

\* the for/else over reversed(parents) of visit_assign: the enclosing
\* FunctionDef, or 0 where the handler returns
RECURSIVE ParentFunc(_, _)
ParentFunc(ps, i) ==
    IF i = 0 THEN 0
    ELSE IF tree[ps[i]].kind = "ClassDef" THEN 0
    ELSE IF tree[ps[i]].kind = "FunctionDef" THEN ps[i]
    ELSE ParentFunc(ps, i - 1)

\* the loop over node.targets of visit_assign from target i on
RECURSIVE TargetsLoop(_, _, _)
TargetsLoop(node, i, parent_func) ==
    IF i > Len(node.targets) THEN <<>>
    ELSE
        LET target == node.targets[i]
            name == IF target.kind = "Name" THEN target.id ELSE None
        IN  IF name = None THEN <<>>
            ELSE IF name \in global_names[parent_func].names THEN <<>>
            ELSE (IF ~LOWERCASE_REGEX(name) /\ Prefix(name, 1) # <<"_">>
                  THEN <<err("VariablesInFunctionCheck", target, "E805")>>
                  ELSE <<>>)
                 \o TargetsLoop(node, i + 1, parent_func)

VariablesInFunctionCheck_visit_assign(n, ps) ==
    LET parent_func == ParentFunc(ps, Len(ps))
    IN  IF parent_func = 0 THEN <<>> ELSE TargetsLoop(tree[n], 1, parent_func)

\* BaseASTCheck._checks: the check classes in the order they are defined
visitors ==
    <<"ClassNameCheck", "FunctionNameCheck", "FunctionArgNamesCheck",
      "ImportAsCheck", "VariablesInFunctionCheck">>

\* hasattr(visitor, 'visit_' + kind.lower())
hasattr(visitor, kind) ==
    <<visitor, kind>> \in
        {<<"ClassNameCheck", "ClassDef">>,
         <<"FunctionNameCheck", "FunctionDef">>,
         <<"FunctionArgNamesCheck", "FunctionDef">>,
         <<"ImportAsCheck", "ImportFrom">>,
         <<"VariablesInFunctionCheck", "Assign">>}

\* getattr(visitor, method)(node, self.parents)
CallHandler(visitor, n, ps) ==
    CASE visitor = "ClassNameCheck" -> ClassNameCheck_visit_classdef(n, ps)
      [] visitor = "FunctionNameCheck" -> FunctionNameCheck_visit_functiondef(n, ps)
      [] visitor = "FunctionArgNamesCheck" -> FunctionArgNamesCheck_visit_functiondef(n, ps)
      [] visitor = "ImportAsCheck" -> ImportAsCheck_visit_importfrom(n, ps)
      [] visitor = "VariablesInFunctionCheck" -> VariablesInFunctionCheck_visit_assign(n, ps)

\* a diagnostic as it is yielded, with the node whose visit yielded it
Yielded(diags, n) == [i \in DOMAIN diags |-> [diag |-> diags[i], node |-> n]]

\* a bug that walks the registry backwards
DispatchLoop_ReversedMutant(n, ps, i) ==
    LET RECURSIVE Back(_)
        Back(k) ==
            IF k = 0 THEN <<>>
            ELSE (IF hasattr(visitors[k], tree[n].kind)
                  THEN Yielded(CallHandler(visitors[k], n, ps), n) ELSE <<>>)
                 \o Back(k - 1)
    IN  Back(Len(visitors))

\* the loop over self.visitors of visit_node from visitor i on
RECURSIVE DispatchLoop(_, _, _)
DispatchLoop(n, ps, i) ==
    IF i > Len(visitors) THEN <<>>
    ELSE (IF hasattr(visitors[i], tree[n].kind)
          THEN Yielded(CallHandler(visitors[i], n, ps), n) ELSE <<>>)
         \o DispatchLoop(n, ps, i + 1)

----------------------------------------------------------------------------
(* The traversal engine *)

Frame(node, pc, idx) == [node |-> node, pc |-> pc, idx |-> idx]

Top == stack[1]

\* a bug that walks whatever it is given
run_walks_AlwaysMutant(node) == TRUE

\* run: "self._run(self._node) if self._node else ()"
run_walks(node) == node # NoTree

\* a bug that pushes nothing
Pushed_NothingMutant(ps, node) == ps

\* self.parents.append(node)
Pushed(ps, node) == Append(ps, node)

\* self.parents.pop()
Popped(ps) == SubSeq(ps, 1, Len(ps) - 1)

\* run() on an absent tree: the empty tuple, nothing to consume
RunAbsent ==
    /\ status = "init"
    /\ ~run_walks(tree)
    /\ status' = "done"
    /\ UNCHANGED <<tree, parents, stack, out, function_type, global_names, events>>

\* run() on a tree: the generator _run(self._node)
RunStart ==
    /\ status = "init"
    /\ run_walks(tree)
    /\ status' = "running"
    /\ stack' = <<Frame(1, "visit", 0)>>
    /\ UNCHANGED <<tree, parents, out, function_type, global_names, events>>

\* a bug that leaves the global-name pass out of visit_node
AnnotatedGlobals_SkippedMutant(n) == global_names

\* visit_node, the global-name pass of a FunctionDef
AnnotatedGlobals(n) ==
    IF tree[n].kind = "FunctionDef" THEN find_global_defs(n) ELSE global_names

\* visit_node, the class pass of a ClassDef
AnnotatedRoles(n) ==
    IF tree[n].kind = "ClassDef" THEN tag_class_functions(n) ELSE function_type

\* visit_node, first part: the annotator pass of the node's kind
Annotate ==
    /\ status = "running"
    /\ Top.pc = "visit"
    /\ function_type' = AnnotatedRoles(Top.node)
    /\ global_names' = AnnotatedGlobals(Top.node)
    /\ stack' = [stack EXCEPT ![1].pc = "dispatch"]
    /\ UNCHANGED <<tree, parents, out, status, events>>

\* visit_node, second part: every visitor with a handler for the kind is
\* called with (node, self.parents) and its diagnostics are yielded
Dispatch ==
    /\ status = "running"
    /\ Top.pc = "dispatch"
    /\ out' = out \o DispatchLoop(Top.node, parents, 1)
    /\ events' = Append(events, [op |-> "visit", node |-> Top.node])
    /\ stack' = [stack EXCEPT ![1].pc = "push"]
    /\ UNCHANGED <<tree, parents, function_type, global_names, status>>

\* _run: self.parents.append(node)
Push ==
    /\ status = "running"
    /\ Top.pc = "push"
    /\ parents' = Pushed(parents, Top.node)
    /\ events' = Append(events, [op |-> "push", node |-> Top.node])
    /\ stack' = [stack EXCEPT ![1].pc = "children", ![1].idx = 1]
    /\ UNCHANGED <<tree, out, function_type, global_names, status>>

\* _run: the next child of the loop over ast_iter_nodes(node) is walked
Descend ==
    /\ status = "running"
    /\ Top.pc = "children"
    /\ Top.idx <= Len(ast_iter_nodes(Top.node))
    /\ stack' = <<Frame(ast_iter_nodes(Top.node)[Top.idx], "visit", 0)>>
                 \o [stack EXCEPT ![1].idx = Top.idx + 1]
    /\ UNCHANGED <<tree, parents, out, function_type, global_names, status, events>>

\* _run: the children are exhausted, self.parents.pop(), the generator ends
Pop ==
    /\ status = "running"
    /\ Top.pc = "children"
    /\ Top.idx > Len(ast_iter_nodes(Top.node))
    /\ parents' = Popped(parents)
    /\ events' = Append(events,
            [op |-> "pop", node |-> IF parents = <<>> THEN 0 ELSE parents[Len(parents)]])
    /\ stack' = Tail(stack)
    /\ status' = IF Len(stack) = 1 THEN "done" ELSE "running"
    /\ UNCHANGED <<tree, out, function_type, global_names>>

Next ==
    \/ RunAbsent
    \/ RunStart
    \/ Annotate
    \/ Dispatch
    \/ Push
    \/ Descend
    \/ Pop

\* the state after ASTChecker(tree, filename, options)
InitWith(t) ==
    /\ tree = t
    /\ parents = <<>>
    /\ stack = <<>>
    /\ out = <<>>
    /\ function_type = [n \in DOMAIN t |-> ""]
    /\ global_names = [n \in DOMAIN t |-> [assigned |-> FALSE, names |-> {}]]
    /\ status = "init"
    /\ events = <<>>

----------------------------------------------------------------------------
(* Trees *)

\* the most nodes of a generated tree below its fixed part
MaxNodes == 3

ContainerKinds == {"Module", "ClassDef", "FunctionDef", "If"}

RECURSIVE Depth(_, _)
Depth(t, n) == IF t[n].parent = 0 THEN 0 ELSE 1 + Depth(t, t[n].parent)

\* the targets of an assignment on line `lineno`, at their offsets from
\* column `col`
RECURSIVE PlaceTargets(_, _, _, _)
PlaceTargets(targets, k, lineno, col) ==
    IF k > Len(targets) THEN <<>>
    ELSE <<Expr(targets[k].kind, targets[k].id, lineno, col + targets[k].col_offset)>>
         \o PlaceTargets(targets, k + 1, lineno, col)

\* prototype p as node number i of a tree, under parent par at depth d >= 1:
\* one statement per three lines, four columns per level below the module
Place(p, i, par, d) ==
    [p EXCEPT !.parent = par,
              !.lineno = 3 * i,
              !.col_offset = 4 * (d - 1),
              !.targets = PlaceTargets(p.targets, 1, 3 * i, 4 * (d - 1))]

ModuleNode == BlankNode

\* the tree that extends tree t by the prototypes palette[qs[i]], the i-th
\* under node pars[i]
RECURSIVE Grown(_, _, _, _, _)
Grown(t, palette, pars, qs, i) ==
    IF i > Len(pars) THEN t
    ELSE Grown(Append(t, Place(palette[qs[i]], Len(t) + 1, pars[i], Depth(t, pars[i]) + 1)),
               palette, pars, qs, i + 1)

\* the parents of k nodes added to a tree of b nodes: each an earlier node,
\* from node `low` on
RECURSIVE ParentSeqs(_, _, _)
ParentSeqs(b, low, k) ==
    IF k = 0 THEN {<<>>}
    ELSE {Append(ps, par) : ps \in ParentSeqs(b, low, k - 1), par \in low..(b + k - 1)}

\* statements are held by the nodes that have a body
WellFormed(t) ==
    \A i \in DOMAIN t :
        IF t[i].parent = 0 THEN i = 1 ELSE t[t[i].parent].kind \in ContainerKinds

nm(c) == <<c>>

Dec(id) == Expr("Name", id, 0, 0)

ClassDefNode(name, decorator_list) ==
    [BlankNode EXCEPT !.kind = "ClassDef", !.name = name, !.decorator_list = decorator_list]

FunctionDefNode(name, args, decorator_list) ==
    [BlankNode EXCEPT !.kind = "FunctionDef", !.name = name, !.args = args,
                      !.decorator_list = decorator_list]

AssignNode(targets, value) ==
    [BlankNode EXCEPT !.kind = "Assign", !.targets = targets, !.value = value]

GlobalNode(names) == [BlankNode EXCEPT !.kind = "Global", !.names = names]

IfNode == [BlankNode EXCEPT !.kind = "If"]

ImportFromNode(aliases) == [BlankNode EXCEPT !.kind = "ImportFrom", !.aliases = aliases]

n_dec == <<"d","e","c">>
n_myClass == <<"m","y","C","l","a","s","s">>
n_getcwd == <<"g","e","t","c","w","d">>
n_GETCWD == <<"G","E","T","C","W","D">>

\* the statements of the engine's trees
EnginePalette ==
    << ClassDefNode(n_myClass, <<Dec(n_dec), Dec(n_dec)>>),
       FunctionDefNode(nm("f"), Arguments(<<n_self>>, <<>>, None, None), <<>>),
       FunctionDefNode(nm("F"), Arguments(<<nm("X")>>, <<>>, None, None), <<Dec(n_dec)>>),
       AssignNode(<<Expr("Name", nm("X"), 0, 0)>>, Value("Num", NoExpr, <<>>)),
       GlobalNode(<<nm("X")>>),
       IfNode,
       ImportFromNode(<<Alias(n_getcwd, n_GETCWD)>>) >>

\* the checkers built on the absent tree, on `base`, and on each well-formed
\* tree that extends `base` by up to MaxNodes statements of `palette` under
\* nodes from `low` on
FamilyInit(base, low, palette) ==
    \E k \in 0..MaxNodes :
        \E pars \in ParentSeqs(Len(base), low, k), qs \in [1..k -> DOMAIN palette],
           present \in BOOLEAN :
            LET t == Grown(base, palette, pars, qs, 1)
            IN  /\ IF k = 0 THEN TRUE ELSE present
                /\ WellFormed(t)
                /\ InitWith(IF present THEN t ELSE NoTree)

Init == FamilyInit(<<ModuleNode>>, 1, EnginePalette)

Spec == Init /\ [][Next]_vars

----------------------------------------------------------------------------
(* Tree relations the properties are stated with *)

\* a is a proper ancestor of b
RECURSIVE IsAncestor(_, _)
IsAncestor(a, b) ==
    IF tree[b].parent = 0 THEN FALSE
    ELSE IF tree[b].parent = a THEN TRUE
    ELSE IsAncestor(a, tree[b].parent)

\* the proper ancestors of n, from the root down to n's parent
RECURSIVE AncestorChain(_)
AncestorChain(n) ==
    IF tree[n].parent = 0 THEN <<>>
    ELSE Append(AncestorChain(tree[n].parent), tree[n].parent)

\* the child of c whose subtree holds n (n below c)
RECURSIVE BranchOf(_, _)
BranchOf(c, n) == IF tree[n].parent = c THEN n ELSE BranchOf(c, tree[n].parent)

\* a and b lie in the subtrees of two children of a common node, a's first
EarlierSiblingSubtree(a, b) ==
    \E c \in DOMAIN tree :
        /\ IsAncestor(c, a)
        /\ IsAncestor(c, b)
        /\ BranchOf(c, a) < BranchOf(c, b)

RuleIndex(rule) == CHOOSE k \in DOMAIN visitors : visitors[k] = rule

Related(a, b) == a = b \/ IsAncestor(a, b) \/ IsAncestor(b, a)

EventCount(op, n) ==
    Cardinality({i \in DOMAIN events : events[i].op = op /\ events[i].node = n})

----------------------------------------------------------------------------
(* Properties of the traversal engine, under Spec *)

\* C1: a node's diagnostics come before those of its descendants, the
\* diagnostics of an earlier sibling's subtree before those of a later
\* sibling's subtree, and one node's diagnostics in registry order.
C1_DiagnosticOrder ==
    \A i, j \in DOMAIN out :
        i < j =>
            LET a == out[i].node
                b == out[j].node
            IN  /\ ~IsAncestor(b, a)
                /\ ~Related(a, b) => EarlierSiblingSubtree(a, b)
                /\ a = b => RuleIndex(out[i].diag[4]) <= RuleIndex(out[j].diag[4])

\* a finished walk that yielded for a node under two rules, for a descendant
\* of it, and then for a later sibling numbered before that descendant
C1_Witness ==
    /\ status = "done"
    /\ \E i, j, k, l \in DOMAIN out :
        /\ i < j /\ j < k /\ k < l
        /\ out[i].node = out[j].node
        /\ out[i].diag[4] # out[j].diag[4]
        /\ IsAncestor(out[i].node, out[k].node)
        /\ tree[out[l].node].parent = tree[out[i].node].parent
        /\ out[l].node # out[i].node
        /\ out[l].node < out[k].node

\* C7: on an absent tree run() gives the empty sequence: nothing is walked,
\* no handler is called, nothing is yielded, the ancestor chain is as it was.
C7_AbsentTreeYieldsNothing ==
    tree = NoTree =>
        /\ status \in {"init", "done"}
        /\ out = <<>>
        /\ events = <<>>
        /\ stack = <<>>
        /\ parents = <<>>

C7_Witness == tree = NoTree /\ status = "done"

\* C8: a diagnostic on a ClassDef with d decorators is at (lineno + d,
\* col_offset + 6), on a FunctionDef with d decorators at (lineno + d,
\* col_offset + 4), on any other node (the Name target of an assignment, an
\* ImportFrom) at the node's own position.
C8_ReportedPosition ==
    \A i \in DOMAIN out :
        LET d == out[i].diag
            node == tree[out[i].node]
        IN  CASE node.kind = "ClassDef" ->
                    /\ d[1] = node.lineno + Len(node.decorator_list)
                    /\ d[2] = node.col_offset + 6
              [] node.kind = "FunctionDef" ->
                    /\ d[1] = node.lineno + Len(node.decorator_list)
                    /\ d[2] = node.col_offset + 4
              [] node.kind = "Assign" ->
                    \E k \in DOMAIN node.targets :
                        /\ node.targets[k].kind = "Name"
                        /\ d[1] = node.targets[k].lineno
                        /\ d[2] = node.targets[k].col_offset
              [] OTHER ->
                    /\ d[1] = node.lineno
                    /\ d[2] = node.col_offset

\* diagnostics on a ClassDef with 2 decorators, a FunctionDef with 1 and an
\* assignment target, at the positions the claim names
C8_Witness ==
    \E i, j, k \in DOMAIN out :
        /\ tree[out[i].node].kind = "ClassDef"
        /\ Len(tree[out[i].node].decorator_list) = 2
        /\ out[i].diag[1] = tree[out[i].node].lineno + 2
        /\ out[i].diag[2] = tree[out[i].node].col_offset + 6
        /\ tree[out[j].node].kind = "FunctionDef"
        /\ Len(tree[out[j].node].decorator_list) = 1
        /\ out[j].diag[1] = tree[out[j].node].lineno + 1
        /\ out[j].diag[2] = tree[out[j].node].col_offset + 4
        /\ tree[out[k].node].kind = "Assign"

\* the role of FunctionDef f is settled: set by the class pass when f is a
\* direct child of a ClassDef, the default Function otherwise
RoleSettled(f) ==
    IF tree[f].parent # 0 /\ tree[tree[f].parent].kind = "ClassDef"
    THEN function_type[f] \in {"method", "classmethod", "staticmethod"}
    ELSE function_type[f] = ""

\* C9: when the handlers of a node are called, the node (if a FunctionDef)
\* and every FunctionDef of the ancestor chain have their role and their
\* GlobalNameSet.
C9_AnnotatedBeforeObserved ==
    (status = "running" /\ Top.pc = "dispatch") =>
        \A f \in {Top.node} \cup Range(parents) :
            tree[f].kind = "FunctionDef" =>
                /\ global_names[f].assigned
                /\ RoleSettled(f)

\* the handlers of an assignment are about to be called inside a method, and
\* those of a FunctionDef that is the visited node itself
C9_Witness ==
    /\ status = "running"
    /\ Top.pc = "dispatch"
    /\ tree[Top.node].kind = "Assign"
    /\ \E f \in Range(parents) :
        /\ tree[f].kind = "FunctionDef"
        /\ tree[tree[f].parent].kind = "ClassDef"
        /\ function_type[f] = "method"
        /\ global_names[f].assigned

\* C10: at the handlers of n the chain is n's proper ancestors, root first;
\* a node is pushed once, popped at most once and only after its push and
\* the visit of each of its descendants; a finished walk has popped every
\* node and left the chain empty.
C10_StackDiscipline ==
    /\ (status = "running" /\ Top.pc = "dispatch") =>
            /\ parents = AncestorChain(Top.node)
            /\ Len(parents) = Depth(tree, Top.node)
    /\ \A n \in DOMAIN tree :
            /\ EventCount("push", n) <= 1
            /\ EventCount("pop", n) <= EventCount("push", n)
    /\ \A i \in DOMAIN events :
            events[i].op = "pop" =>
                /\ events[i].node \in DOMAIN tree
                /\ \E j \in 1..(i - 1) : events[j] = [op |-> "push", node |-> events[i].node]
                /\ \A d \in DOMAIN tree :
                        IsAncestor(events[i].node, d) =>
                            \E j \in 1..(i - 1) : events[j] = [op |-> "visit", node |-> d]
    /\ status = "done" =>
            /\ parents = <<>>
            /\ \A n \in DOMAIN tree : EventCount("pop", n) = 1

\* a finished walk of a tree three levels deep below its root
C10_Witness ==
    /\ status = "done"
    /\ \E n \in DOMAIN tree : Depth(tree, n) = 3
    /\ \A n \in DOMAIN tree : EventCount("push", n) = 1 /\ EventCount("pop", n) = 1

----------------------------------------------------------------------------
(* Class bodies: the class pass, under SpecClass *)

n_abc == <<"a","b","c">>

PlainArgs(args) == Arguments(args, <<>>, None, None)

\* name = func(args...), the func a bare name or an attribute
WrapAssign(target, funcKind, func, args) ==
    AssignNode(<<Expr("Name", target, 0, 0)>>,
               Value("Call", Expr(funcKind, func, 0, 0), args))

\* the statements of a class body: definitions of f without decorators, with
\* @staticmethod, and with decorators of which the third is the first bare
\* classmethod/staticmethod; assignments that re-bind a name as a wrapped f,
\* and assignments that fail one condition of that shape each
ClassPalette ==
    << FunctionDefNode(nm("f"), PlainArgs(<<nm("x")>>), <<>>),
       FunctionDefNode(nm("f"), PlainArgs(<<nm("x")>>), <<Dec(n_staticmethod)>>),
       FunctionDefNode(nm("f"), PlainArgs(<<nm("x")>>),
                       <<Expr("Attribute", n_staticmethod, 0, 0), Dec(n_dec),
                         Dec(n_classmethod), Dec(n_staticmethod)>>),
       WrapAssign(nm("f"), "Name", n_staticmethod, <<Expr("Name", nm("f"), 0, 0)>>),
       WrapAssign(nm("g"), "Name", n_classmethod, <<Expr("Name", nm("f"), 0, 0)>>),
       WrapAssign(nm("f"), "Name", n_staticmethod, <<Expr("Attribute", nm("f"), 0, 0)>>),
       WrapAssign(nm("f"), "Name", n_staticmethod,
                  <<Expr("Name", nm("f"), 0, 0), Expr("Name", nm("g"), 0, 0)>>),
       WrapAssign(nm("f"), "Attribute", n_staticmethod, <<Expr("Name", nm("f"), 0, 0)>>),
       WrapAssign(nm("f"), "Name", n_dec, <<Expr("Name", nm("f"), 0, 0)>>) >>

\* class C: ... at module level
ClassBase == Grown(<<ModuleNode>>, <<ClassDefNode(nm("C"), <<>>)>>, <<1>>, <<1>>, 1)

InitClass == FamilyInit(ClassBase, 2, ClassPalette)

SpecClass == InitClass /\ [][Next]_vars

\* the handlers of node n have been called
Visited(n) == \E i \in DOMAIN events : events[i] = [op |-> "visit", node |-> n]

\* the roles that assignments of the body of class c give the name of f:
\* name = classmethod(f) or name = staticmethod(f), f a bare identifier
LateRoles(c, f) ==
    {FuncName(tree[a].value.func.id) :
        a \in {a \in DOMAIN tree :
                /\ tree[a].parent = c
                /\ tree[a].kind = "Assign"
                /\ tree[a].value.kind = "Call"
                /\ tree[a].value.func.kind = "Name"
                /\ tree[a].value.func.id \in {n_classmethod, n_staticmethod}
                /\ Len(tree[a].value.args) = 1
                /\ tree[a].value.args[1].kind = "Name"
                /\ tree[a].value.args[1].id = tree[f].name}}

\* the decorators of f that are bare references to classmethod/staticmethod
BareDecorators(f) ==
    {k \in DOMAIN tree[f].decorator_list :
        /\ tree[f].decorator_list[k].kind = "Name"
        /\ tree[f].decorator_list[k].id \in {n_classmethod, n_staticmethod}}

\* C4: once the class pass of a ClassDef has run, each FunctionDef that is
\* its direct child has the role of an assignment-style decoration of its
\* name in the class body if there is one, otherwise of its first decorator
\* that is a bare classmethod/staticmethod, otherwise Method.
C4_RoleOfClassFunction ==
    \A c \in DOMAIN tree :
        (tree[c].kind = "ClassDef" /\ Visited(c)) =>
            \A f \in DOMAIN tree :
                (tree[f].parent = c /\ tree[f].kind = "FunctionDef") =>
                    IF LateRoles(c, f) # {}
                    THEN function_type[f] \in LateRoles(c, f)
                    ELSE IF BareDecorators(f) # {}
                    THEN LET k == CHOOSE k \in BareDecorators(f) :
                                    \A m \in BareDecorators(f) : k <= m
                         IN  function_type[f] = FuncName(tree[f].decorator_list[k].id)
                    ELSE function_type[f] = "method"

\* an undecorated f made a staticmethod by f = staticmethod(f), beside a
\* wrapping call of a non-identifier, which gave no role
C4_Witness ==
    /\ status = "done"
    /\ \E f, a, b \in DOMAIN tree :
        /\ tree[f].kind = "FunctionDef"
        /\ tree[f].parent = 2
        /\ tree[f].decorator_list = <<>>
        /\ function_type[f] = "staticmethod"
        /\ tree[a].parent = 2
        /\ tree[a].kind = "Assign"
        /\ tree[a].value.args = <<Expr("Name", nm("f"), 0, 0)>>
        /\ tree[b].parent = 2
        /\ tree[b].kind = "Assign"
        /\ tree[b].value.args = <<Expr("Attribute", nm("f"), 0, 0)>>

----------------------------------------------------------------------------
(* Function definitions: the naming rules, under SpecDefs *)

\* the most positional arguments of a generated definition
MaxArgs == 2

n_init == <<"_","_","i","n","i","t","_","_">>
n_args == <<"a","r","g","s">>
n_Args == <<"A","r","g","s">>
n_kw == <<"k","w">>
n_KW == <<"K","W">>

\* the sequences over S of length up to k
RECURSIVE SeqsUpTo(_, _)
SeqsUpTo(S, k) ==
    IF k = 0 THEN {<<>>}
    ELSE LET shorter == SeqsUpTo(S, k - 1)
         IN  shorter \cup {Append(q, x) : q \in shorter, x \in S}

FunctionNames ==
    {nm("f"), nm("F"), nm("_"), <<"_","_">>, <<"_","_","f">>, <<"f","_","_">>,
     <<"_","f">>, <<"f","1">>, <<"m","y","F","u","n","c">>, n_init}

ArgNames == {n_self, n_cls, nm("x"), nm("X")}

\* where the definition stands: at module level, in a class body, or in a
\* function of a class body
DefBases ==
    << <<ModuleNode>>,
       ClassBase,
       Grown(ClassBase, <<FunctionDefNode(nm("m"), PlainArgs(<<n_self>>), <<>>)>>, <<2>>, <<1>>, 1) >>

\* one definition; either its arguments vary (and its name is f) or its name
\* varies (and it takes nothing or self)
InitDefs ==
    \E b \in DOMAIN DefBases, name \in FunctionNames,
       args \in SeqsUpTo(ArgNames, MaxArgs), kwonlyargs \in {<<>>, <<nm("k")>>, <<nm("K")>>},
       vararg \in {None, n_args, n_Args}, kwarg \in {None, n_kw, n_KW},
       decorator_list \in {<<>>, <<Dec(n_classmethod)>>, <<Dec(n_staticmethod)>>},
       present \in BOOLEAN :
        LET def == FunctionDefNode(name, Arguments(args, kwonlyargs, vararg, kwarg), decorator_list)
            t == Grown(DefBases[b], <<def>>, <<Len(DefBases[b])>>, <<1>>, 1)
            plain == /\ args \in {<<>>, <<n_self>>}
                     /\ kwonlyargs = <<>>
                     /\ vararg = None
                     /\ kwarg = None
        IN  /\ IF name = nm("f") THEN TRUE ELSE plain
            /\ IF present THEN TRUE ELSE (b = 1 /\ name = nm("f") /\ plain /\ args = <<>> /\ decorator_list = <<>>)
            /\ InitWith(IF present THEN t ELSE NoTree)

SpecDefs == InitDefs /\ [][Next]_vars

\* the lowercase style, [_a-z][_a-z0-9]*
IsLowercaseStyle(s) ==
    /\ Len(s) >= 1
    /\ s[1] \in {"_"} \cup LowerChars
    /\ \A i \in 2..Len(s) : s[i] \in {"_"} \cup LowerChars \cup DigitChars

StartsWithDunder(s) == Len(s) >= 2 /\ s[1] = "_" /\ s[2] = "_"

EndsWithDunder(s) == Len(s) >= 2 /\ s[Len(s) - 1] = "_" /\ s[Len(s)] = "_"

\* the codes rule `rule` yielded for node n, in order
RECURSIVE CodesFrom(_, _, _)
CodesFrom(rule, n, i) ==
    IF i > Len(out) THEN <<>>
    ELSE IF out[i].node = n /\ out[i].diag[4] = rule
         THEN <<out[i].diag[3]>> \o CodesFrom(rule, n, i + 1)
         ELSE CodesFrom(rule, n, i + 1)

T_E801 == "E801 function name should be lowercase"
T_E802 == "E802 argument name should be lowercase"
T_E804 == "E804 first argument of a method should be named 'self'"

\* a visited FunctionDef of role Method whose first argument is not self
MethodWithoutSelf(n) ==
    /\ tree[n].kind = "FunctionDef"
    /\ Visited(n)
    /\ function_type[n] = "method"
    /\ get_arg_names(tree[n]) # <<>>
    /\ get_arg_names(tree[n])[1] # n_self

\* C2 as claimed: a method whose first argument is not self gets E804
\* whatever else is wrong with its arguments, *args and **kwargs included.
C2_SelfAlwaysReported ==
    \A n \in DOMAIN tree :
        MethodWithoutSelf(n) =>
            \E i \in DOMAIN out : out[i].node = n /\ out[i].diag[3] = T_E804

\* C2 as amended: when the *args and **kwargs names are absent or lowercase,
\* the method gets E804, followed by E802 when a positional or keyword-only
\* argument is not lowercase, and nothing else from the argument rule.
C2_SelfReportedUnlessStarArgsFail ==
    \A n \in DOMAIN tree :
        (/\ MethodWithoutSelf(n)
         /\ (tree[n].args.kwarg = None \/ IsLowercaseStyle(tree[n].args.kwarg))
         /\ (tree[n].args.vararg = None \/ IsLowercaseStyle(tree[n].args.vararg))) =>
            CodesFrom("FunctionArgNamesCheck", n, 1) =
                IF \E k \in DOMAIN get_arg_names(tree[n]) :
                        ~IsLowercaseStyle(get_arg_names(tree[n])[k])
                THEN <<T_E804, T_E802>>
                ELSE <<T_E804>>

\* a method def f(X, x) with lowercase *args and **kwargs: E804 and E802
C2_Witness ==
    \E n \in DOMAIN tree :
        /\ MethodWithoutSelf(n)
        /\ tree[n].args.args = <<nm("X"), nm("x")>>
        /\ tree[n].args.vararg = n_args
        /\ tree[n].args.kwarg = n_kw
        /\ CodesFrom("FunctionArgNamesCheck", n, 1) = <<T_E804, T_E802>>

\* C6: a visited FunctionDef gets exactly one E801 when its name is not in
\* lowercase style, or its role is Function and the name starts or ends
\* with a double underscore, and none otherwise; __init__(self) directly in
\* a class is a Method and gets no diagnostic at all.
C6_FunctionNameRule ==
    \A n \in DOMAIN tree :
        (tree[n].kind = "FunctionDef" /\ Visited(n)) =>
            /\ CodesFrom("FunctionNameCheck", n, 1) =
                IF \/ ~IsLowercaseStyle(tree[n].name)
                   \/ /\ function_type[n] = ""
                      /\ (StartsWithDunder(tree[n].name) \/ EndsWithDunder(tree[n].name))
                THEN <<T_E801>>
                ELSE <<>>
            /\ (/\ tree[n].name = n_init
                /\ tree[n].args = PlainArgs(<<n_self>>)
                /\ tree[n].decorator_list = <<>>
                /\ tree[tree[n].parent].kind = "ClassDef") =>
                    /\ function_type[n] = "method"
                    /\ \A i \in DOMAIN out : out[i].node # n

\* def __init__(self) in a class body, walked to the end with nothing yielded
C6_Witness ==
    /\ status = "done"
    /\ out = <<>>
    /\ \E n \in DOMAIN tree :
        /\ tree[n].name = n_init
        /\ tree[n].args = PlainArgs(<<n_self>>)
        /\ tree[tree[n].parent].kind = "ClassDef"
        /\ function_type[n] = "method"

----------------------------------------------------------------------------
(* Function bodies: the global-name pass, under SpecGlobals *)

\* the statements of a function body: nested scopes, a compound statement,
\* global declarations
ScopePalette ==
    << FunctionDefNode(nm("g"), NoArguments, <<>>),
       ClassDefNode(nm("K"), <<>>),
       IfNode,
       GlobalNode(<<nm("X")>>),
       GlobalNode(<<nm("Y"), nm("Z")>>) >>

\* def outer(): if ...: ... at module level
OuterBase ==
    Grown(<<ModuleNode>>, <<FunctionDefNode(<<"o","u","t","e","r">>, NoArguments, <<>>), IfNode>>,
          <<1, 2>>, <<1, 2>>, 1)

InitGlobals == FamilyInit(OuterBase, 2, ScopePalette)

SpecGlobals == InitGlobals /\ [][Next]_vars

\* no FunctionDef or ClassDef lies strictly between f and its descendant g
SameScope(f, g) ==
    /\ IsAncestor(f, g)
    /\ \A m \in DOMAIN tree :
        (IsAncestor(f, m) /\ IsAncestor(m, g)) =>
            tree[m].kind \notin {"FunctionDef", "ClassDef"}

\* C5: the GlobalNameSet of a FunctionDef is exactly the names of the global
\* declarations below it that no nested FunctionDef or ClassDef encloses.
C5_GlobalNameSet ==
    \A f \in DOMAIN tree :
        (tree[f].kind = "FunctionDef" /\ global_names[f].assigned) =>
            global_names[f].names =
                UNION {Range(tree[g].names) :
                        g \in {g \in DOMAIN tree : tree[g].kind = "Global" /\ SameScope(f, g)}}

\* outer has a global X inside a compound statement, which is in its set, and
\* a global Y only inside a nested function, which is not
C5_Witness ==
    /\ tree # NoTree
    /\ global_names[2].assigned
    /\ nm("X") \in global_names[2].names
    /\ nm("Y") \notin global_names[2].names
    /\ \E g \in DOMAIN tree :
        /\ tree[g].names = <<nm("X")>>
        /\ tree[g].parent = 3
    /\ \E g, h \in DOMAIN tree :
        /\ tree[g].names = <<nm("Y"), nm("Z")>>
        /\ tree[g].parent = h
        /\ tree[h].kind = "FunctionDef"
        /\ IsAncestor(2, h)

----------------------------------------------------------------------------
(* Assignments: the local-variable rule, under SpecAssign *)

\* the most targets of a generated assignment
MaxTargets == 2

\* the targets: names that are flagged, lowercase, underscore-led, declared
\* global in the function, and a target that is no identifier
TargetChoices ==
    {Expr("Name", nm("X"), 0, 0), Expr("Name", nm("x"), 0, 0),
     Expr("Name", <<"_","X">>, 0, 0), Expr("Name", nm("G"), 0, 0),
     Expr("Attribute", nm("A"), 0, 0)}

\* the targets at their columns: "t1 = t2 = ... = 1"
RECURSIVE AtColumns(_, _, _)
AtColumns(targets, k, col) ==
    IF k > Len(targets) THEN <<>>
    ELSE <<Expr(targets[k].kind, targets[k].id, 0, col)>>
         \o AtColumns(targets, k + 1, col + Len(targets[k].id) + 3)

\* where the assignment stands: [the kinds from the module down, the index
\* of the function that holds the global declaration or 0]
AssignPlaces ==
    << <<"Module">>,
       <<"Module", "ClassDef">>,
       <<"Module", "FunctionDef">>,
       <<"Module", "FunctionDef", "If">>,
       <<"Module", "ClassDef", "FunctionDef">>,
       <<"Module", "FunctionDef", "ClassDef">>,
       <<"Module", "FunctionDef", "FunctionDef">> >>

HolderNode(kind) ==
    CASE kind = "ClassDef" -> ClassDefNode(nm("K"), <<>>)
      [] kind = "FunctionDef" -> FunctionDefNode(nm("f"), NoArguments, <<>>)
      [] kind = "If" -> IfNode

\* the chain of holders of a place, each the child of the one before
RECURSIVE Chain(_, _, _)
Chain(t, place, i) ==
    IF i > Len(place) THEN t
    ELSE Chain(Append(t, Place(HolderNode(place[i]), Len(t) + 1, Len(t), Len(t))), place, i + 1)

\* one assignment at a place; a global declaration, if any, is the first
\* statement of the outermost function of the place
InitAssign ==
    \E p \in DOMAIN AssignPlaces, targets \in SeqsUpTo(TargetChoices, MaxTargets),
       declared \in {<<>>, <<nm("G")>>, <<nm("X"), nm("G")>>}, present \in BOOLEAN :
        LET place == AssignPlaces[p]
            holders == Chain(<<ModuleNode>>, place, 2)
            fs == {i \in DOMAIN holders : holders[i].kind = "FunctionDef"}
            f == IF fs = {} THEN 0 ELSE CHOOSE i \in fs : \A j \in fs : i <= j
            withGlobal ==
                IF declared = <<>> THEN holders
                ELSE Append(holders, Place(GlobalNode(declared), Len(holders) + 1, f, f))
            t == Append(withGlobal,
                        Place(AssignNode(AtColumns(targets, 1, 0), Value("Num", NoExpr, <<>>)),
                              Len(withGlobal) + 1, Len(holders), Len(holders)))
        IN  /\ targets # <<>>
            /\ IF f = 0 THEN declared = <<>> ELSE TRUE
            /\ IF present THEN TRUE ELSE (p = 1 /\ Len(targets) = 1 /\ targets[1].id = nm("X"))
            /\ InitWith(IF present THEN t ELSE NoTree)

SpecAssign == InitAssign /\ [][Next]_vars

\* the nearest FunctionDef or ClassDef above n, or 0
RECURSIVE EnclosingScope(_)
EnclosingScope(n) ==
    IF tree[n].parent = 0 THEN 0
    ELSE IF tree[tree[n].parent].kind \in {"FunctionDef", "ClassDef"} THEN tree[n].parent
    ELSE EnclosingScope(tree[n].parent)

\* the E805 diagnostics of assignment a reported at target k
E805At(a, k) ==
    {i \in DOMAIN out :
        /\ out[i].node = a
        /\ out[i].diag[1] = tree[a].targets[k].lineno
        /\ out[i].diag[2] = tree[a].targets[k].col_offset
        /\ out[i].diag[3] = "E805 variable in function should be lowercase"}

\* C3: in a function, each identifier target of a visited assignment gets one
\* E805 exactly when it is not declared global there, not lowercase and not
\* underscore-led, whatever the other targets are; outside a function, or
\* directly in a class, the assignment gets nothing.
C3_EachTargetJudgedAlone ==
    \A a \in DOMAIN tree :
        (tree[a].kind = "Assign" /\ Visited(a)) =>
            LET s == EnclosingScope(a)
            IN  IF s # 0 /\ tree[s].kind = "FunctionDef"
                THEN \A k \in DOMAIN tree[a].targets :
                        tree[a].targets[k].kind = "Name" =>
                            LET name == tree[a].targets[k].id
                                flagged == /\ name \notin global_names[s].names
                                           /\ ~IsLowercaseStyle(name)
                                           /\ name[1] # "_"
                            IN  Cardinality(E805At(a, k)) = IF flagged THEN 1 ELSE 0
                ELSE \A i \in DOMAIN out : out[i].node # a

====
